---- MODULE Spec2Model ----
(***************************************************************************)
(* Model of script.js, the interactivity layer of the portfolio page:      *)
(* mobile navigation toggle, smooth scrolling, scroll spy, form validation *)
(* and the scroll-to-top button.  The rendered document (index.html) is    *)
(* the input of the script; it is described by the definitions of the      *)
(* section "Document".                                                     *)
(***************************************************************************)
EXTENDS Integers, Sequences, FiniteSets, TLC

(***************************************************************************)
(* Document: the elements the script looks up.                             *)
(***************************************************************************)

\* the <a> elements inside #main-navigation, in document order
NavLinkEls == <<"a_about", "a_projects", "a_contact">>

\* getAttribute('href') of the navigation links
NavLinkHrefs == <<"#about", "#projects", "#contact">>

NumLinks == Len(NavLinkEls)

LinkIdx == 1..NumLinks

\* ids that document.querySelector(href) resolves
SectionIds == {"about", "projects", "blog", "contact"}

\* elements that take focus natively (sections do not until given a tabindex)
NativelyFocusable == {"toggle", "a_about", "a_projects", "a_contact", "name"}

\* targets of clicks that are neither the trigger nor a navigation link
ClickTargets == {"page", "nav_padding"}

\* nav.contains(target)
InsideNav(t) == t = "nav_padding" \/ \E i \in LinkIdx : NavLinkEls[i] = t

InsideToggleNever(t) == FALSE

\* toggle.contains(target)
InsideToggle(t) == t = "toggle"

Elements == {"body", "toggle"} \cup {NavLinkEls[i] : i \in LinkIdx} \cup SectionIds

Keys == {"Enter", " ", "Escape", "ArrowDown", "ArrowUp", "Home", "End", "Tab"}

\* window.innerWidth values offered by the resize events
Widths == {767, 768}

\* the desktop breakpoint of handleResize
Breakpoint == 768

\* the rendered page: header.offsetHeight, window.innerHeight and
\* document.documentElement.scrollHeight, in CSS pixels
Page == [headerHeight |-> 60, innerHeight |-> 400, scrollHeight |-> 1300]

HeaderHeight == Page.headerHeight

\* main section[id], in document order (offsetTop and offsetHeight in CSS pixels);
\* "blog" has no link in the navigation
Sections == << [id |-> "about",    offsetTop |-> 200,  offsetHeight |-> 300],
               [id |-> "projects", offsetTop |-> 520,  offsetHeight |-> 280],
               [id |-> "blog",     offsetTop |-> 800,  offsetHeight |-> 300],
               [id |-> "contact",  offsetTop |-> 1100, offsetHeight |-> 100] >>

NumSections == Len(Sections)

\* the elements a fragment href of the page can name: the sections and the
\* name field of the contact form, with its absolute top
Anchors == Sections \o << [id |-> "name", offsetTop |-> 1130, offsetHeight |-> 30] >>

NumAnchors == Len(Anchors)

\* href of the a[href^="#"] links outside the navigation: two placeholders, a
\* fragment no element carries and a form field
PageLinkHrefs == {"#", "#!", "#missing", "#name"}

WindowHeight == Page.innerHeight

DocumentHeight == Page.scrollHeight

\* the largest scroll position the document allows
MaxScroll == DocumentHeight - WindowHeight

\* section.offsetTop - (headerHeight + 100) with the header of this document
AdjustedTop(k) == Sections[k].offsetTop - (HeaderHeight + 100)

\* the scroll positions the scroll events are drawn from: the ends of the
\* document, both sides of every section boundary, of the bottom threshold and
\* of the scroll-to-top threshold
ScrollStops ==
    { p \in 0..MaxScroll :
        \/ p \in {0, MaxScroll, 300, 301, MaxScroll - 10, MaxScroll - 11}
        \/ \E k \in 1..NumSections :
              p \in {AdjustedTop(k) - 1, AdjustedTop(k),
                     AdjustedTop(k) + Sections[k].offsetHeight - 1,
                     AdjustedTop(k) + Sections[k].offsetHeight} }

\* the inputs of #contact-form, in document order (input.id = field name)
FieldOrder == <<"name", "email", "subject", "message">>

Fields == {FieldOrder[k] : k \in 1..Len(FieldOrder)}

\* document.getElementById(fieldName + "-error") finds the field's error span,
\* an element with class "error-message" inside the form
HasErrorSpan(f) == TRUE

\* textContent of the submit button in the markup
SubmitLabel == "Send Message"

\* n copies of the character c
Rep(c, n) == [k \in 1..n |-> c]

\* a value of l blanks, n letters and r blanks
Pad(l, n, r) == Rep(" ", l) \o Rep("x", n) \o Rep(" ", r)

\* the values the rules of a single field are tried on: blanks around 0 to 21
\* letters, and two words
RuleValues ==
    {Pad(l, n, r) : l \in 0..1, n \in {0, 1, 2, 3, 4, 5, 6, 19, 20, 21}, r \in 0..1}
        \cup {<<"a", " ", "b">>, <<"a", "\t">>, Pad(0, 10, 0) \o <<" ">> \o Pad(0, 9, 0)}

\* the values the email rules are tried on: addresses, and values that miss a
\* part, repeat the "@" or hold a blank
EmailValues ==
    {<<"a", "@", "b", ".", "c", "o">>,
     <<"n", "o", "t", "-", "a", "n", "-", "e", "m", "a", "i", "l">>,
     <<"a", "@", "b">>,
     <<"a", "@", "b", ".">>,
     <<"a", "@", ".", "c", "o">>,
     <<"@", "b", ".", "c", "o">>,
     <<"a", "@", "@", "b", ".", "c", "o">>,
     <<"a", "@", "b", ".", "c", "@", "d">>,
     <<"a", "@", "b", ".", "c", ".", "d">>,
     <<"a", " ", "b", "@", "c", ".", "d">>,
     <<"a", "@", "b", " ", ".", "c">>,
     <<" ", "a", "@", "b", ".", "c", "o">>,
     <<"a", "@", "b", ".", "c", "o", " ">>,
     <<"a", ".", "b", "@", "c">>}

\* the values typed into the fields of the form
TypedValues ==
    [name    |-> {<<"A">>, <<"A", "l">>},
     email   |-> {<<"a", "@", "b", ".", "c", "o">>},
     subject |-> {Pad(0, 5, 0)},
     message |-> {Pad(0, 20, 0)}]

\* the elements init() looks up by id or selector and that a document may lack
\* ("nav" stands for #main-navigation with its links)
LookedUp == {"toggle", "nav", "header", "form", "name", "email", "subject", "message",
             "form-status", "submit"}

\* the five behaviours init() sets up
Behaviours == {"nav", "smooth", "spy", "form", "top"}

\* pending smooth-scroll focus timers the model keeps at once
MaxTimers == 2

\* history entries the model lets the page push
MaxHistory == 2

\* simulated submissions pending at once
MaxSubmissions == 2

\* status auto-clear timers pending at once
MaxStatusTimers == 2

\* calls of initScrollToTop after the one of the page load
MaxInits == 2

VARIABLES
    isOpen,         \* closure variable of initMobileNavigation
    ariaExpanded,   \* toggle's aria-expanded attribute
    navClassList,   \* nav.classList
    bodyOverflow,   \* document.body.style.overflow
    activeElement,  \* document.activeElement
    innerWidth,     \* window.innerWidth
    focusTimers,    \* pending setTimeout callbacks that move focus, oldest first
    tabindex,       \* elements that were given tabindex="-1"
    scrollRequest,  \* top of the last window.scrollTo request, -1 when none
    history,        \* fragments pushed with history.pushState, oldest first
    defaultPrevented, \* the last event had preventDefault called on it
    lastEvent,      \* the event handled last
    lastArg,        \* its key, or the href or element it was aimed at, "" when it has none
    wasOpen,        \* isOpen when that event arrived
    scrollPosition, \* window.pageYOffset
    linkClassList,  \* classList of each navigation link
    currentActiveLink, \* closure variable of initScrollSpy, "null" or an href
    spyScrollTimeout,  \* scrollTimeout of initScrollSpy, 0 when undefined
    topScrollTimeout,  \* scrollTimeout of initScrollToTop, 0 when undefined
    rafCallbacks,   \* callbacks requested for the next animation frame, in order
    buttonClassList, \* classList of the scroll-to-top button
    isVisible,      \* closure variable of initScrollToTop
    moreButtons,    \* button, isVisible and scrollTimeout of each later call of initScrollToTop
    value,          \* input.value of each field, a sequence of characters
    fieldClassList, \* classList of each input
    ariaInvalid,    \* aria-invalid of each input, "absent" when not set
    errorText,      \* textContent of each field's error span
    statusText,     \* textContent of #form-status
    statusClass,    \* className of #form-status
    statusRole,     \* role attribute of #form-status, "absent" when not set
    statusTimers,   \* pending 5 s auto-clear timers with the message each was set for, oldest first
    submitDisabled, \* disabled of the submit button
    submitText,     \* textContent of the submit button
    submissions,    \* originalText of each pending submitForm, oldest first
    recomputations, \* runs of each recomputation in the last frame, 0 after a scroll event
    lastCancelled,  \* handles the last scroll event cancelled while they were pending
    present,        \* the elements of LookedUp the document has
    loaded,         \* DOMContentLoaded has been handled
    initialised,    \* the behaviours whose init function ran to its end
    scrollTopButtons, \* elements with id "scroll-to-top" in the body
    scrollTopStyles,  \* style[data-scroll-to-top] elements in the head
    thrown          \* the function whose exception went unhandled last, or "none"

\* what only the navigation and the smooth scrolling write
navVars == <<isOpen, ariaExpanded, navClassList, bodyOverflow, activeElement,
             innerWidth, focusTimers, tabindex, scrollRequest, history,
             defaultPrevented>>

scrollVars == <<scrollPosition, linkClassList, currentActiveLink, spyScrollTimeout,
                topScrollTimeout, rafCallbacks, buttonClassList, isVisible,
                moreButtons, recomputations, lastCancelled>>

formVars == <<value, fieldClassList, ariaInvalid, errorText, statusText, statusClass,
              statusRole, statusTimers, submitDisabled, submitText, submissions>>

loadVars == <<present, loaded, initialised, scrollTopButtons, scrollTopStyles, thrown>>

vars == <<navVars, scrollVars, formVars, loadVars, lastEvent, lastArg, wasOpen>>

\* the listeners of behaviour b are registered
Listening(b) == loaded /\ b \in initialised

(***************************************************************************)
(* Mobile navigation                                                       *)
(***************************************************************************)

\* Boolean.prototype.toString
BoolToString(b) == IF b THEN "true" ELSE "false"

\* classList.toggle(name, force)
ClassToggle(list, name, force) == IF force THEN list \cup {name} ELSE list \ {name}

\* the part of the page the menu code reads and writes
Menu == [isOpen |-> isOpen, ariaExpanded |-> ariaExpanded, navClassList |-> navClassList,
         bodyOverflow |-> bodyOverflow, activeElement |-> activeElement]

\* updateMenuState without the scroll lock
updateMenuStateNoLock(m) ==
    [m EXCEPT !.ariaExpanded = BoolToString(m.isOpen),
              !.navClassList = ClassToggle(m.navClassList, "open", m.isOpen)]

updateMenuState(m) ==
    [m EXCEPT !.ariaExpanded = BoolToString(m.isOpen),
              !.navClassList = ClassToggle(m.navClassList, "open", m.isOpen),
              !.bodyOverflow = IF m.isOpen THEN "hidden" ELSE ""]

\* closeMenu that moves the focus and leaves the menu as it is
closeMenuFocusOnly(m) ==
    IF ~m.isOpen THEN m ELSE [m EXCEPT !.activeElement = "toggle"]

\* toggleMenu that forgets to call updateMenuState
toggleMenuNoUpdate(m) == [m EXCEPT !.isOpen = ~m.isOpen]

toggleMenu(m) == updateMenuState([m EXCEPT !.isOpen = ~m.isOpen])

closeMenuUnguarded(m) ==
    [updateMenuState([m EXCEPT !.isOpen = FALSE]) EXCEPT !.activeElement = "toggle"]

closeMenu(m) ==
    IF ~m.isOpen THEN m
    ELSE [updateMenuState([m EXCEPT !.isOpen = FALSE]) EXCEPT !.activeElement = "toggle"]

handleToggleKeydown(m, key) == IF key = "Enter" \/ key = " " THEN toggleMenu(m) ELSE m

\* handleNavKeydown whose arrow keys stop at the first and the last link
handleNavKeydownNoWrap(m, key, i) ==
    IF key = "Escape" THEN closeMenu(m)
    ELSE IF key = "ArrowDown"
    THEN [m EXCEPT !.activeElement = NavLinkEls[IF i < NumLinks THEN i + 1 ELSE i]]
    ELSE IF key = "ArrowUp"
    THEN [m EXCEPT !.activeElement = NavLinkEls[IF i > 1 THEN i - 1 ELSE i]]
    ELSE IF key = "Home" THEN [m EXCEPT !.activeElement = NavLinkEls[1]]
    ELSE IF key = "End" THEN [m EXCEPT !.activeElement = NavLinkEls[NumLinks]]
    ELSE m

handleNavKeydown(m, key, i) ==
    IF key = "Escape" THEN closeMenu(m)
    ELSE IF key = "ArrowDown" THEN [m EXCEPT !.activeElement = NavLinkEls[(i % NumLinks) + 1]]
    ELSE IF key = "ArrowUp" THEN [m EXCEPT !.activeElement = NavLinkEls[((i - 2 + NumLinks) % NumLinks) + 1]]
    ELSE IF key = "Home" THEN [m EXCEPT !.activeElement = NavLinkEls[1]]
    ELSE IF key = "End" THEN [m EXCEPT !.activeElement = NavLinkEls[NumLinks]]
    ELSE m

\* handleOutsideClick without the test of the target
handleOutsideClickAnywhere(m, target) ==
    IF ~m.isOpen THEN m ELSE closeMenu(m)

handleOutsideClick(m, target) ==
    IF ~m.isOpen THEN m
    ELSE IF ~InsideNav(target) /\ ~InsideToggle(target) THEN closeMenu(m)
    ELSE m

handleEscapeKey(m, key) == IF key = "Escape" /\ m.isOpen THEN closeMenu(m) ELSE m

\* handleResize without the test of the width
handleResizeAnyWidth(m, width) == IF m.isOpen THEN closeMenu(m) ELSE m

handleResize(m, width) == IF width >= Breakpoint /\ m.isOpen THEN closeMenu(m) ELSE m

\* never called by any listener: toggleMenu flips isOpen itself
openMenu(m, timers) ==
    [menu |-> updateMenuState([m EXCEPT !.isOpen = TRUE]),
     timers |-> IF NumLinks > 0
                THEN Append(timers, [kind |-> "firstLink", target |-> NavLinkEls[1]])
                ELSE timers]

SetMenu(m) ==
    /\ isOpen' = m.isOpen
    /\ ariaExpanded' = m.ariaExpanded
    /\ navClassList' = m.navClassList
    /\ bodyOverflow' = m.bodyOverflow
    /\ activeElement' = m.activeElement

(***************************************************************************)
(* Smooth scrolling                                                        *)
(***************************************************************************)

\* header ? header.offsetHeight : 0
headerHeight == IF "header" \in present THEN HeaderHeight ELSE 0

\* the element is in the document (sections always are)
InDocument(id) == id \in LookedUp => id \in present

\* document.querySelector(href) for a fragment href: the index of the element
\* in Anchors, 0 for null
Resolve(href) ==
    IF \E k \in 1..NumAnchors : href = "#" \o Anchors[k].id /\ InDocument(Anchors[k].id)
    THEN (CHOOSE k \in 1..NumAnchors : href = "#" \o Anchors[k].id)
    ELSE 0

\* the click listener of initSmoothScrolling on a link with this href
SmoothScrollIntercepts(href) == href # "#" /\ href # "#!" /\ Resolve(href) # 0

\* target.getBoundingClientRect().top + window.pageYOffset - headerHeight - 20
offsetPositionNoHeader(k) == Anchors[k].offsetTop - 20

offsetPosition(k) == Anchors[k].offsetTop - headerHeight - 20

smoothScrollClickAlwaysPrevents(href) ==
    IF SmoothScrollIntercepts(href)
    THEN /\ defaultPrevented' = TRUE
         /\ scrollRequest' = offsetPosition(Resolve(href))
         /\ history' = Append(history, href)
         /\ focusTimers' = Append(focusTimers, [kind |-> "target", target |-> Anchors[Resolve(href)].id])
    ELSE /\ defaultPrevented' = TRUE
         /\ UNCHANGED <<scrollRequest, history, focusTimers>>

smoothScrollClick(href) ==
    IF SmoothScrollIntercepts(href)
    THEN /\ defaultPrevented' = TRUE
         /\ scrollRequest' = offsetPosition(Resolve(href))
         /\ history' = Append(history, href)
         /\ focusTimers' = Append(focusTimers, [kind |-> "target", target |-> Anchors[Resolve(href)].id])
    ELSE /\ defaultPrevented' = FALSE
         /\ UNCHANGED <<scrollRequest, history, focusTimers>>

focusTargetNoRetry(t) ==
    IF t \in NativelyFocusable \/ t \in tabindex
    THEN /\ activeElement' = t
         /\ UNCHANGED tabindex
    ELSE UNCHANGED <<activeElement, tabindex>>

focusTargetAlwaysTabindex(t) ==
    /\ tabindex' = tabindex \cup {t}
    /\ activeElement' = t

\* the 500 ms callback: focus the target, give it a tabindex if that failed
focusTarget(t) ==
    IF t \in NativelyFocusable \/ t \in tabindex
    THEN /\ activeElement' = t
         /\ UNCHANGED tabindex
    ELSE /\ tabindex' = tabindex \cup {t}
         /\ activeElement' = t

(***************************************************************************)
(* Events of the navigation                                                *)
(***************************************************************************)

\* a pointer click may or may not move focus to the clicked element first
ClickFocus(m, el) == {m, [m EXCEPT !.activeElement = el]}

\* click on the trigger: toggleMenu, then the document's handleOutsideClick
ToggleClick ==
    /\ Listening("nav")
    /\ UNCHANGED <<scrollVars, formVars, loadVars>>
    /\ \E m0 \in ClickFocus(Menu, "toggle") :
          SetMenu(handleOutsideClick(toggleMenu(m0), "toggle"))
    /\ defaultPrevented' = FALSE
    /\ lastEvent' = "toggle_click"
    /\ lastArg' = "toggle"
    /\ wasOpen' = isOpen
    /\ UNCHANGED <<innerWidth, focusTimers, tabindex, scrollRequest, history>>

\* keydown on the focused trigger: handleToggleKeydown, then handleEscapeKey
ToggleKeydown(key) ==
    /\ Listening("nav")
    /\ UNCHANGED <<scrollVars, formVars, loadVars>>
    /\ activeElement = "toggle"
    /\ SetMenu(handleEscapeKey(handleToggleKeydown(Menu, key), key))
    /\ defaultPrevented' = (key = "Enter" \/ key = " ")
    /\ lastEvent' = "toggle_keydown"
    /\ lastArg' = key
    /\ wasOpen' = isOpen
    /\ UNCHANGED <<innerWidth, focusTimers, tabindex, scrollRequest, history>>

\* click on navigation link i: closeMenu, the smooth-scroll listener, then
\* the document's handleOutsideClick
NavLinkClick(i) ==
    /\ Listening("nav") /\ Listening("smooth")
    /\ UNCHANGED <<scrollVars, formVars, loadVars>>
    /\ Len(focusTimers) < MaxTimers
    /\ Len(history) < MaxHistory
    /\ \E m0 \in ClickFocus(Menu, NavLinkEls[i]) :
          SetMenu(handleOutsideClick(closeMenu(m0), NavLinkEls[i]))
    /\ smoothScrollClick(NavLinkHrefs[i])
    /\ lastEvent' = "link_click"
    /\ lastArg' = NavLinkHrefs[i]
    /\ wasOpen' = isOpen
    /\ UNCHANGED <<innerWidth, tabindex>>

\* keydown on the focused navigation link i: handleNavKeydown, then handleEscapeKey
NavLinkKeydown(i, key) ==
    /\ Listening("nav")
    /\ UNCHANGED <<scrollVars, formVars, loadVars>>
    /\ activeElement = NavLinkEls[i]
    /\ SetMenu(handleEscapeKey(handleNavKeydown(Menu, key, i), key))
    /\ defaultPrevented' = (key \in {"Escape", "ArrowDown", "ArrowUp", "Home", "End"})
    /\ lastEvent' = "link_keydown"
    /\ lastArg' = key
    /\ wasOpen' = isOpen
    /\ UNCHANGED <<innerWidth, focusTimers, tabindex, scrollRequest, history>>

\* click elsewhere in the document
DocumentClick(target) ==
    /\ Listening("nav")
    /\ UNCHANGED <<scrollVars, formVars, loadVars>>
    /\ SetMenu(handleOutsideClick(Menu, target))
    /\ defaultPrevented' = FALSE
    /\ lastEvent' = "document_click"
    /\ lastArg' = target
    /\ wasOpen' = isOpen
    /\ UNCHANGED <<innerWidth, focusTimers, tabindex, scrollRequest, history>>

\* keydown with the focus outside the trigger and the links
DocumentKeydown(key) ==
    /\ Listening("nav")
    /\ UNCHANGED <<scrollVars, formVars, loadVars>>
    /\ activeElement \notin ({"toggle"} \cup {NavLinkEls[i] : i \in LinkIdx})
    /\ SetMenu(handleEscapeKey(Menu, key))
    /\ defaultPrevented' = FALSE
    /\ lastEvent' = "document_keydown"
    /\ lastArg' = key
    /\ wasOpen' = isOpen
    /\ UNCHANGED <<innerWidth, focusTimers, tabindex, scrollRequest, history>>

Resize(width) ==
    /\ Listening("nav")
    /\ UNCHANGED <<scrollVars, formVars, loadVars>>
    /\ innerWidth' = width
    /\ SetMenu(handleResize(Menu, width))
    /\ defaultPrevented' = FALSE
    /\ lastEvent' = "resize"
    /\ lastArg' = ""
    /\ wasOpen' = isOpen
    /\ UNCHANGED <<focusTimers, tabindex, scrollRequest, history>>

\* the user moves focus (Tab, Shift+Tab, pointer) to a focusable element
FocusMove(el) ==
    /\ UNCHANGED <<scrollVars, formVars, loadVars>>
    /\ el \in NativelyFocusable \cup tabindex \cup {"body"}
    /\ el # activeElement
    /\ activeElement' = el
    /\ defaultPrevented' = FALSE
    /\ lastEvent' = "focus"
    /\ lastArg' = ""
    /\ wasOpen' = isOpen
    /\ UNCHANGED <<isOpen, ariaExpanded, navClassList, bodyOverflow, innerWidth,
                   focusTimers, tabindex, scrollRequest, history>>

\* the oldest pending focus timer fires
\* click on a fragment link outside the navigation: its smooth-scroll
\* listener, then the document's handleOutsideClick
FragmentLinkClick(href) ==
    /\ loaded
    /\ UNCHANGED <<scrollVars, formVars, loadVars>>
    /\ (Listening("smooth") /\ SmoothScrollIntercepts(href)) =>
          (Len(focusTimers) < MaxTimers /\ Len(history) < MaxHistory)
    /\ \E m0 \in ClickFocus(Menu, "page_link") :
          SetMenu(IF Listening("nav") THEN handleOutsideClick(m0, "page_link") ELSE m0)
    /\ IF Listening("smooth")
       THEN smoothScrollClick(href)
       ELSE /\ defaultPrevented' = FALSE
            /\ UNCHANGED <<scrollRequest, history, focusTimers>>
    /\ lastEvent' = "fragment_click"
    /\ lastArg' = href
    /\ wasOpen' = isOpen
    /\ UNCHANGED <<innerWidth, tabindex>>

FocusTimerFires ==
    /\ UNCHANGED <<scrollVars, formVars, loadVars>>
    /\ focusTimers # << >>
    /\ focusTarget(Head(focusTimers).target)
    /\ focusTimers' = Tail(focusTimers)
    /\ defaultPrevented' = FALSE
    /\ lastEvent' = "focus_timer"
    /\ lastArg' = ""
    /\ wasOpen' = isOpen
    /\ UNCHANGED <<isOpen, ariaExpanded, navClassList, bodyOverflow, innerWidth,
                   scrollRequest, history>>

\* the menu after init(): markup has aria-expanded="false", menu closed
InitMenu ==
    /\ isOpen = FALSE
    /\ ariaExpanded = "false"
    /\ navClassList = {}
    /\ bodyOverflow = ""
    /\ focusTimers = << >>
    /\ tabindex = {}
    /\ scrollRequest = -1
    /\ history = << >>
    /\ defaultPrevented = FALSE
    /\ lastEvent = "init"
    /\ lastArg = ""
    /\ wasOpen = FALSE

InitNav == InitMenu /\ activeElement = "body" /\ innerWidth \in Widths

NextNav ==
    \/ ToggleClick
    \/ \E key \in Keys : ToggleKeydown(key)
    \/ \E i \in LinkIdx : NavLinkClick(i)
    \/ \E href \in PageLinkHrefs : FragmentLinkClick(href)
    \/ \E i \in LinkIdx, key \in Keys : NavLinkKeydown(i, key)
    \/ \E target \in ClickTargets : DocumentClick(target)
    \/ \E key \in Keys : DocumentKeydown(key)
    \/ \E width \in Widths : Resize(width)
    \/ \E el \in Elements : FocusMove(el)
    \/ FocusTimerFires

(***************************************************************************)
(* Scroll spy                                                              *)
(***************************************************************************)

\* the part of the page the scroll spy reads and writes
Spy == [currentActiveLink |-> currentActiveLink, linkClassList |-> linkClassList]

\* setActiveLink that marks the matching link and leaves the others alone
setActiveLinkNoRemove(s, href) ==
    IF s.currentActiveLink = href THEN s
    ELSE [currentActiveLink |->
              IF \E i \in LinkIdx : NavLinkHrefs[i] = href THEN href ELSE s.currentActiveLink,
          linkClassList |->
              [i \in LinkIdx |->
                  IF NavLinkHrefs[i] = href
                  THEN s.linkClassList[i] \cup {"active"}
                  ELSE s.linkClassList[i]]]

setActiveLinkNoGuard(s, href) ==
    [currentActiveLink |->
         IF \E i \in LinkIdx : NavLinkHrefs[i] = href THEN href ELSE s.currentActiveLink,
     linkClassList |->
         [i \in LinkIdx |->
             IF NavLinkHrefs[i] = href
             THEN s.linkClassList[i] \cup {"active"}
             ELSE s.linkClassList[i] \ {"active"}]]

setActiveLink(s, href) ==
    IF s.currentActiveLink = href THEN s
    ELSE [currentActiveLink |->
              IF \E i \in LinkIdx : NavLinkHrefs[i] = href THEN href ELSE s.currentActiveLink,
          linkClassList |->
              [i \in LinkIdx |->
                  IF NavLinkHrefs[i] = href
                  THEN s.linkClassList[i] \cup {"active"}
                  ELSE s.linkClassList[i] \ {"active"}]]

\* scrollPosition + windowHeight >= documentHeight - 10
AtBottom(p) == p + WindowHeight >= DocumentHeight - 10

\* the test with the lookahead margin left out of the offset
InSpanNoMargin(k, p) ==
    LET sectionTop == Sections[k].offsetTop - headerHeight
        sectionBottom == sectionTop + Sections[k].offsetHeight
    IN  p >= sectionTop /\ p < sectionBottom

\* the test of the sections.forEach body
InSpan(k, p) ==
    LET sectionTop == Sections[k].offsetTop - (headerHeight + 100)
        sectionBottom == sectionTop + Sections[k].offsetHeight
    IN  p >= sectionTop /\ p < sectionBottom

\* activeSection after the forEach: the last section whose test passed, 0 for null
ActiveSection(p) ==
    IF \E k \in 1..NumSections : InSpan(k, p)
    THEN CHOOSE k \in 1..NumSections :
             InSpan(k, p) /\ \A j \in 1..NumSections : InSpan(j, p) => j <= k
    ELSE 0

updateActiveLink(s, p) ==
    IF AtBottom(p) THEN setActiveLink(s, "#" \o Sections[NumSections].id)
    ELSE IF ActiveSection(p) # 0 THEN setActiveLink(s, "#" \o Sections[ActiveSection(p)].id)
    ELSE s

(***************************************************************************)
(* Scroll-to-top button                                                    *)
(***************************************************************************)

Button == [isVisible |-> isVisible, buttonClassList |-> buttonClassList]

\* the recomputation without the branch that hides the button
updateButtonVisibilityShowOnly(b, p) ==
    LET shouldShow == p > 300
    IN  IF shouldShow /\ ~b.isVisible
        THEN [isVisible |-> TRUE, buttonClassList |-> b.buttonClassList \cup {"visible"}]
        ELSE b

\* the recomputation with a threshold that includes 300
updateButtonVisibilityFrom300(b, p) ==
    LET shouldShow == p >= 300
    IN  IF shouldShow /\ ~b.isVisible
        THEN [isVisible |-> TRUE, buttonClassList |-> b.buttonClassList \cup {"visible"}]
        ELSE IF ~shouldShow /\ b.isVisible
        THEN [isVisible |-> FALSE, buttonClassList |-> b.buttonClassList \ {"visible"}]
        ELSE b

updateButtonVisibility(b, p) ==
    LET shouldShow == p > 300
    IN  IF shouldShow /\ ~b.isVisible
        THEN [isVisible |-> TRUE, buttonClassList |-> b.buttonClassList \cup {"visible"}]
        ELSE IF ~shouldShow /\ b.isVisible
        THEN [isVisible |-> FALSE, buttonClassList |-> b.buttonClassList \ {"visible"}]
        ELSE b

(***************************************************************************)
(* Animation-frame scheduling                                              *)
(***************************************************************************)

Handles(queue) == {queue[k].handle : k \in 1..Len(queue)}

\* window.requestAnimationFrame returns a handle no callback has had before;
\* handles are only compared, so the model takes the least positive one
\* outside `used`: the handles pending, held in a scrollTimeout variable or
\* cancelled by the event being handled
FreshHandle(used) ==
    CHOOSE h \in 1..(Cardinality(used) + 1) :
        h \notin used /\ \A g \in 1..(h - 1) : g \in used

\* window.cancelAnimationFrame(handle)
cancelAnimationFrameAny(queue, handle) == IF handle = 0 THEN queue ELSE << >>

cancelAnimationFrame(queue, handle) == SelectSeq(queue, LAMBDA c : c.handle # handle)

\* a scroll listener that requests a frame without cancelling the pending one
scrollListenerNoCancel(queue, scrollTimeout, used, fn) ==
    [queue |-> Append(queue, [handle |-> FreshHandle(used), fn |-> fn]),
     scrollTimeout |-> FreshHandle(used)]

\* the scroll listener of either behaviour: cancel what scrollTimeout names,
\* request a frame for fn; gives the new queue and the new scrollTimeout
scrollListenerCancelOnly(queue, scrollTimeout, used, fn) ==
    IF scrollTimeout \in Handles(queue)
    THEN [queue |-> cancelAnimationFrame(queue, scrollTimeout), scrollTimeout |-> 0]
    ELSE [queue |-> Append(queue, [handle |-> FreshHandle(used), fn |-> fn]),
          scrollTimeout |-> FreshHandle(used)]

scrollListener(queue, scrollTimeout, used, fn) ==
    LET q1 == IF scrollTimeout # 0 THEN cancelAnimationFrame(queue, scrollTimeout) ELSE queue
    IN  [queue |-> Append(q1, [handle |-> FreshHandle(used), fn |-> fn]),
         scrollTimeout |-> FreshHandle(used)]

\* the scroll listeners of the later calls of initScrollToTop, in the order
\* they were registered, from the k-th on
RECURSIVE moreScrollListeners(_, _, _, _)
moreScrollListeners(queue, used, buttons, k) ==
    IF k > Len(buttons) THEN [queue |-> queue, buttons |-> buttons]
    ELSE LET l == scrollListener(queue, buttons[k].scrollTimeout, used,
                                 "updateButtonVisibility")
         IN  moreScrollListeners(l.queue, used \cup {l.scrollTimeout},
                                 [buttons EXCEPT ![k].scrollTimeout = l.scrollTimeout],
                                 k + 1)

\* the callbacks of one frame, run in the order they were requested; a pending
\* updateButtonVisibility is the closure of the call of initScrollToTop whose
\* scrollTimeout holds its handle
RECURSIVE RunCallbacks(_, _, _, _, _)
RunCallbacks(queue, s, b, more, n) ==
    IF queue = << >> THEN [spy |-> s, button |-> b, more |-> more, runs |-> n]
    ELSE IF Head(queue).fn = "updateActiveLink"
    THEN RunCallbacks(Tail(queue), updateActiveLink(s, scrollPosition), b, more,
                      [n EXCEPT !.spy = @ + 1])
    ELSE IF Head(queue).handle = topScrollTimeout
    THEN RunCallbacks(Tail(queue), s, updateButtonVisibility(b, scrollPosition), more,
                      [n EXCEPT !.top = @ + 1])
    ELSE RunCallbacks(Tail(queue), s, b,
                      [k \in DOMAIN more |->
                          IF more[k].scrollTimeout = Head(queue).handle
                          THEN [more[k] EXCEPT
                                   !.button = updateButtonVisibility(@, scrollPosition)]
                          ELSE more[k]],
                      n)

\* a scroll event: the position has changed, both scroll listeners run
Scroll(p) ==
    /\ loaded
    /\ p # scrollPosition
    /\ scrollPosition' = p
    /\ LET held == {moreButtons[k].scrollTimeout : k \in 1..Len(moreButtons)}
           used == (Handles(rafCallbacks) \cup {spyScrollTimeout, topScrollTimeout} \cup held) \ {0}
           spy == IF Listening("spy")
                  THEN scrollListener(rafCallbacks, spyScrollTimeout, used, "updateActiveLink")
                  ELSE [queue |-> rafCallbacks, scrollTimeout |-> spyScrollTimeout]
           top == IF Listening("top")
                  THEN scrollListener(spy.queue, topScrollTimeout, used \cup {spy.scrollTimeout},
                                      "updateButtonVisibility")
                  ELSE [queue |-> spy.queue, scrollTimeout |-> topScrollTimeout]
           more == moreScrollListeners(top.queue,
                                       used \cup {spy.scrollTimeout, top.scrollTimeout},
                                       moreButtons, 1)
       IN  /\ spyScrollTimeout' = spy.scrollTimeout
           /\ topScrollTimeout' = top.scrollTimeout
           /\ moreButtons' = more.buttons
           /\ rafCallbacks' = more.queue
           /\ lastCancelled' = Handles(rafCallbacks) \ Handles(more.queue)
    /\ recomputations' = [spy |-> 0, top |-> 0]
    /\ lastEvent' = "scroll"
    /\ lastArg' = ""
    /\ wasOpen' = isOpen
    /\ UNCHANGED <<linkClassList, currentActiveLink, buttonClassList, isVisible>>
    /\ UNCHANGED <<navVars, formVars, loadVars>>

\* the browser renders a frame: every pending callback runs once
AnimationFrame ==
    /\ rafCallbacks # << >>
    /\ LET r == RunCallbacks(rafCallbacks, Spy, Button, moreButtons, [spy |-> 0, top |-> 0])
       IN  /\ currentActiveLink' = r.spy.currentActiveLink
           /\ linkClassList' = r.spy.linkClassList
           /\ isVisible' = r.button.isVisible
           /\ buttonClassList' = r.button.buttonClassList
           /\ moreButtons' = r.more
           /\ recomputations' = r.runs
    /\ rafCallbacks' = << >>
    /\ lastEvent' = "frame"
    /\ lastArg' = ""
    /\ wasOpen' = isOpen
    /\ UNCHANGED <<scrollPosition, spyScrollTimeout, topScrollTimeout, lastCancelled>>
    /\ UNCHANGED <<navVars, formVars, loadVars>>

\* click on the scroll-to-top button: its listener, then the document's
\* handleOutsideClick.  The injected style sheet gives the button
\* visibility: hidden without the class "visible", so it takes clicks only
\* with it; the click may move the focus to the button
ScrollTopClick ==
    /\ Listening("top")
    /\ "visible" \in buttonClassList
    /\ scrollRequest' = 0
    /\ \E m0 \in ClickFocus(Menu, "scroll-to-top") :
          SetMenu(IF Listening("nav") THEN handleOutsideClick(m0, "scroll-to-top") ELSE m0)
    /\ defaultPrevented' = FALSE
    /\ lastEvent' = "top_click"
    /\ lastArg' = ""
    /\ wasOpen' = isOpen
    /\ UNCHANGED <<innerWidth, focusTimers, tabindex, history>>
    /\ UNCHANGED <<scrollVars, formVars, loadVars>>

\* initScrollSpy and initScrollToTop each end with one direct recomputation
InitScroll ==
    /\ scrollPosition = 0
    /\ LET s == updateActiveLink([currentActiveLink |-> "null",
                                  linkClassList |-> [i \in LinkIdx |-> {}]], 0)
           b == updateButtonVisibility([isVisible |-> FALSE, buttonClassList |-> {"scroll-to-top"}], 0)
       IN  /\ currentActiveLink = s.currentActiveLink
           /\ linkClassList = s.linkClassList
           /\ isVisible = b.isVisible
           /\ buttonClassList = b.buttonClassList
    /\ spyScrollTimeout = 0
    /\ topScrollTimeout = 0
    /\ rafCallbacks = << >>
    /\ moreButtons = << >>
    /\ recomputations = [spy |-> 1, top |-> 1]
    /\ lastCancelled = {}

NextScroll ==
    \/ \E p \in ScrollStops : Scroll(p)
    \/ AnimationFrame
    \/ ScrollTopClick

(***************************************************************************)
(* Form validation                                                         *)
(***************************************************************************)

\* characters String.prototype.trim and the regular expression's \s take as
\* whitespace, among those the model types
IsWhitespace(c) == c \in {" ", "\t", "\n"}

RECURSIVE TrimStart(_)
TrimStart(v) ==
    IF v # << >> /\ IsWhitespace(Head(v)) THEN TrimStart(Tail(v)) ELSE v

RECURSIVE TrimEnd(_)
TrimEnd(v) ==
    IF v # << >> /\ IsWhitespace(v[Len(v)]) THEN TrimEnd(SubSeq(v, 1, Len(v) - 1)) ELSE v

\* String.prototype.trim
Trim(v) == TrimEnd(TrimStart(v))

\* a character of the class [^\s@]
NotSpaceNorAt(c) == ~IsWhitespace(c) /\ c # "@"

\* the pattern that asks for nothing after the dot: /^[^\s@]+@[^\s@]+\.[^\s@]*$/
EmailPatternNoTld(v) ==
    \E a \in 1..Len(v), d \in 1..Len(v) :
        /\ 1 < a /\ a + 1 < d
        /\ v[a] = "@" /\ v[d] = "."
        /\ \A k \in 1..Len(v) : k # a => NotSpaceNorAt(v[k])

\* /^[^\s@]+@[^\s@]+\.[^\s@]+$/.test(v)
EmailPattern(v) ==
    \E a \in 1..Len(v), d \in 1..Len(v) :
        /\ 1 < a /\ a + 1 < d /\ d < Len(v)
        /\ v[a] = "@" /\ v[d] = "."
        /\ \A k \in 1..Len(v) : k # a => NotSpaceNorAt(v[k])

\* the validators table: the rules of each field, in order
validators ==
    [name    |-> << [test |-> "nonEmpty", min |-> 0, message |-> "Name is required"],
                   [test |-> "minLength", min |-> 2, message |-> "Name must be at least 2 characters"] >>,
     email   |-> << [test |-> "nonEmpty", min |-> 0, message |-> "Email is required"],
                   [test |-> "pattern", min |-> 0, message |-> "Please enter a valid email address"] >>,
     subject |-> << [test |-> "nonEmpty", min |-> 0, message |-> "Subject is required"],
                   [test |-> "minLength", min |-> 5, message |-> "Subject must be at least 5 characters"] >>,
     message |-> << [test |-> "nonEmpty", min |-> 0, message |-> "Message is required"],
                   [test |-> "minLength", min |-> 20, message |-> "Message must be at least 20 characters"] >>]

\* a minimum-length test that forgets to trim
RuleTestUntrimmed(rule, v) ==
    IF rule.test = "nonEmpty" THEN Len(Trim(v)) > 0
    ELSE IF rule.test = "minLength" THEN Len(v) >= rule.min
    ELSE EmailPattern(v)

\* rule.test(value)
RuleTest(rule, v) ==
    IF rule.test = "nonEmpty" THEN Len(Trim(v)) > 0
    ELSE IF rule.test = "minLength" THEN Len(Trim(v)) >= rule.min
    ELSE EmailPattern(v)

\* the fields' markers and error spans
FormFields == [classList |-> fieldClassList, ariaInvalid |-> ariaInvalid, errorText |-> errorText]

\* showError that leaves the class "valid" on the input
showErrorKeepsValid(ff, f, message) ==
    [classList |-> [ff.classList EXCEPT ![f] = @ \cup {"invalid"}],
     ariaInvalid |-> [ff.ariaInvalid EXCEPT ![f] = "true"],
     errorText |-> IF HasErrorSpan(f) THEN [ff.errorText EXCEPT ![f] = message] ELSE ff.errorText]

showError(ff, f, message) ==
    [classList |-> [ff.classList EXCEPT ![f] = (@ \cup {"invalid"}) \ {"valid"}],
     ariaInvalid |-> [ff.ariaInvalid EXCEPT ![f] = "true"],
     errorText |-> IF HasErrorSpan(f) THEN [ff.errorText EXCEPT ![f] = message] ELSE ff.errorText]

clearErrorKeepsAria(ff, f) ==
    [classList |-> [ff.classList EXCEPT ![f] = (@ \ {"invalid"}) \cup {"valid"}],
     ariaInvalid |-> ff.ariaInvalid,
     errorText |-> IF HasErrorSpan(f) THEN [ff.errorText EXCEPT ![f] = ""] ELSE ff.errorText]

clearError(ff, f) ==
    [classList |-> [ff.classList EXCEPT ![f] = (@ \ {"invalid"}) \cup {"valid"}],
     ariaInvalid |-> [ff.ariaInvalid EXCEPT ![f] = "false"],
     errorText |-> IF HasErrorSpan(f) THEN [ff.errorText EXCEPT ![f] = ""] ELSE ff.errorText]

\* index of the first rule of f that v fails, 0 when it passes them all
FirstFailing(f, v) ==
    IF \E k \in 1..Len(validators[f]) : ~RuleTest(validators[f][k], v)
    THEN CHOOSE k \in 1..Len(validators[f]) :
             /\ ~RuleTest(validators[f][k], v)
             /\ \A j \in 1..(k - 1) : RuleTest(validators[f][j], v)
    ELSE 0

\* validateField(fieldName): the fields afterwards and the value returned
validateField(ff, f, v) ==
    IF f \notin DOMAIN validators THEN [fields |-> ff, ok |-> TRUE]
    ELSE IF FirstFailing(f, v) # 0
    THEN [fields |-> showError(ff, f, validators[f][FirstFailing(f, v)].message), ok |-> FALSE]
    ELSE [fields |-> clearError(ff, f), ok |-> TRUE]

SetFields(ff) ==
    /\ fieldClassList' = ff.classList
    /\ ariaInvalid' = ff.ariaInvalid
    /\ errorText' = ff.errorText

\* a showStatus that sets no timer
showStatusNoTimer(message, type) ==
    /\ statusText' = message
    /\ statusClass' = type
    /\ statusRole' = IF type = "error" THEN "alert" ELSE "status"
    /\ statusTimers' = statusTimers

\* a showStatus that clears the pending timers before it sets its own
showStatusCancelsOld(message, type) ==
    /\ statusText' = message
    /\ statusClass' = type
    /\ statusRole' = IF type = "error" THEN "alert" ELSE "status"
    /\ statusTimers' = << [message |-> message] >>

\* showStatus(message, type); timers of one delay fire in the order they were set
showStatusPolite(message, type) ==
    /\ statusText' = message
    /\ statusClass' = type
    /\ statusRole' = "status"
    /\ statusTimers' = Append(statusTimers, [message |-> message])

showStatus(message, type) ==
    /\ statusText' = message
    /\ statusClass' = type
    /\ statusRole' = IF type = "error" THEN "alert" ELSE "status"
    /\ statusTimers' = Append(statusTimers, [message |-> message])

RECURSIVE ValidateAllShortCircuit(_, _)
ValidateAllShortCircuit(ff, k) ==
    IF k = 0 THEN ff
    ELSE IF \E j \in 1..(k - 1) : ~validateField(ff, FieldOrder[j], value[FieldOrder[j]]).ok
    THEN ValidateAllShortCircuit(ff, k - 1)
    ELSE validateField(ValidateAllShortCircuit(ff, k - 1), FieldOrder[k],
                       value[FieldOrder[k]]).fields

\* the fields after handleSubmit validated the first k of them
RECURSIVE ValidateAll(_, _)
ValidateAll(ff, k) ==
    IF k = 0 THEN ff
    ELSE validateField(ValidateAll(ff, k - 1), FieldOrder[k], value[FieldOrder[k]]).fields

\* a lookup that takes the last invalid input instead of the first
LastInvalid(ff) ==
    FieldOrder[CHOOSE k \in 1..Len(FieldOrder) :
                  /\ "invalid" \in ff.classList[FieldOrder[k]]
                  /\ \A j \in (k + 1)..Len(FieldOrder) :
                         "invalid" \notin ff.classList[FieldOrder[j]]]

\* form.querySelector('.invalid'): the first invalid input in document order
FirstInvalid(ff) ==
    FieldOrder[CHOOSE k \in 1..Len(FieldOrder) :
                  /\ "invalid" \in ff.classList[FieldOrder[k]]
                  /\ \A j \in 1..(k - 1) : "invalid" \notin ff.classList[FieldOrder[j]]]

\* the user puts the focus into a field from outside the form
FieldFocus(f) ==
    /\ activeElement \notin Fields
    /\ activeElement' = f
    /\ lastEvent' = "focus"
    /\ lastArg' = ""
    /\ wasOpen' = isOpen
    /\ UNCHANGED <<isOpen, ariaExpanded, navClassList, bodyOverflow, innerWidth, focusTimers,
                   tabindex, scrollRequest, history, defaultPrevented>>
    /\ UNCHANGED <<scrollVars, formVars, loadVars>>

\* blur listener: the focused field loses the focus to another element and is
\* validated
FieldBlur(f, to) ==
    /\ Listening("form")
    /\ activeElement = f
    /\ to # f
    /\ activeElement' = to
    /\ SetFields(validateField(FormFields, f, value[f]).fields)
    /\ lastEvent' = "blur"
    /\ lastArg' = ""
    /\ wasOpen' = isOpen
    /\ UNCHANGED <<isOpen, ariaExpanded, navClassList, bodyOverflow, innerWidth, focusTimers,
                   tabindex, scrollRequest, history, defaultPrevented>>
    /\ UNCHANGED <<value, statusText, statusClass, statusRole, statusTimers, submitDisabled,
                   submitText, submissions>>
    /\ UNCHANGED <<scrollVars, loadVars>>

\* input listener: the user changes the focused field's value; the field is
\* validated again only while it is marked invalid
inputListenerAlways(ff, f, v) == validateField(ff, f, v).fields

\* the input listener of a field: validateField only if the field is marked invalid
inputListener(ff, f, v) ==
    IF "invalid" \in ff.classList[f]
    THEN validateField(ff, f, v).fields
    ELSE ff

FieldInput(f, v) ==
    /\ Listening("form")
    /\ activeElement = f
    /\ v # value[f]
    /\ value' = [value EXCEPT ![f] = v]
    /\ SetFields(inputListener(FormFields, f, v))
    /\ lastEvent' = "input"
    /\ lastArg' = ""
    /\ wasOpen' = isOpen
    /\ UNCHANGED <<statusText, statusClass, statusRole, statusTimers, submitDisabled,
                   submitText, submissions>>
    /\ UNCHANGED <<navVars, scrollVars, loadVars>>

\* submit listener: handleSubmit, and the synchronous part of submitForm.
\* showStatus raises a TypeError when #form-status is missing, submitForm when
\* the submit button is
Submit ==
    /\ Listening("form")
    /\ LET ff == ValidateAll(FormFields, Len(FieldOrder))
           isValid == \A f \in Fields : validateField(FormFields, f, value[f]).ok
       IN  /\ SetFields(ff)
           /\ IF ~isValid /\ "form-status" \notin present
              THEN /\ thrown' = "showStatus"
                   /\ UNCHANGED <<activeElement, statusText, statusClass, statusRole,
                                  statusTimers, submitDisabled, submitText, submissions>>
              ELSE IF ~isValid
              THEN /\ Len(statusTimers) < MaxStatusTimers
                   /\ showStatus("Please fix the errors above", "error")
                   /\ activeElement' = FirstInvalid(ff)
                   /\ UNCHANGED <<submitDisabled, submitText, submissions, thrown>>
              ELSE IF "submit" \notin present
              THEN /\ thrown' = "submitForm"
                   /\ UNCHANGED <<activeElement, statusText, statusClass, statusRole,
                                  statusTimers, submitDisabled, submitText, submissions>>
              ELSE /\ Len(submissions) < MaxSubmissions
                   /\ submissions' = Append(submissions, submitText)
                   /\ submitDisabled' = TRUE
                   /\ submitText' = "Sending..."
                   /\ UNCHANGED <<activeElement, statusText, statusClass, statusRole,
                                  statusTimers, thrown>>
    /\ defaultPrevented' = TRUE
    /\ lastEvent' = "submit"
    /\ lastArg' = ""
    /\ wasOpen' = isOpen
    /\ UNCHANGED <<isOpen, ariaExpanded, navClassList, bodyOverflow, innerWidth, focusTimers,
                   tabindex, scrollRequest, history>>
    /\ UNCHANGED <<value, present, loaded, initialised, scrollTopButtons, scrollTopStyles>>
    /\ UNCHANGED scrollVars

\* a removal that leaves the class "valid" on the input
removeInvalidOnly(classList) == classList \ {"invalid"}

\* input.classList.remove('valid', 'invalid')
removeMarkers(classList) == classList \ {"valid", "invalid"}

\* the 1.5 s timer of the oldest pending submitForm resolves: the rest of its
\* try block and its finally block.  Without #form-status showStatus raises in
\* the try block and again in the catch block, and only the finally block runs
SubmitCompletes ==
    /\ submissions # << >>
    /\ IF "form-status" \in present
       THEN /\ Len(statusTimers) < MaxStatusTimers
            /\ showStatus("Message sent successfully! I will get back to you soon.", "success")
            /\ value' = [f \in Fields |-> << >>]
            /\ fieldClassList' = [f \in Fields |-> removeMarkers(fieldClassList[f])]
            /\ ariaInvalid' = [f \in Fields |-> "absent"]
            /\ errorText' = [f \in Fields |-> IF HasErrorSpan(f) THEN "" ELSE errorText[f]]
            /\ UNCHANGED thrown
       ELSE /\ thrown' = "showStatus"
            /\ UNCHANGED <<value, fieldClassList, ariaInvalid, errorText, statusText,
                           statusClass, statusRole, statusTimers>>
    /\ submitDisabled' = FALSE
    /\ submitText' = Head(submissions)
    /\ submissions' = Tail(submissions)
    /\ lastEvent' = "submitted"
    /\ lastArg' = ""
    /\ wasOpen' = isOpen
    /\ UNCHANGED <<navVars, scrollVars>>
    /\ UNCHANGED <<present, loaded, initialised, scrollTopButtons, scrollTopStyles>>

\* the oldest 5 s auto-clear timer fires
StatusTimerFires ==
    /\ statusTimers # << >>
    /\ statusTimers' = Tail(statusTimers)
    /\ statusText' = ""
    /\ statusClass' = ""
    /\ lastEvent' = "status_timer"
    /\ lastArg' = ""
    /\ wasOpen' = isOpen
    /\ UNCHANGED <<value, fieldClassList, ariaInvalid, errorText, statusRole, submitDisabled,
                   submitText, submissions>>
    /\ UNCHANGED <<navVars, scrollVars, loadVars>>

\* the form of the markup: empty fields, no markers, empty status region
InitForm ==
    /\ value = [f \in Fields |-> << >>]
    /\ fieldClassList = [f \in Fields |-> {}]
    /\ ariaInvalid = [f \in Fields |-> "absent"]
    /\ errorText = [f \in Fields |-> ""]
    /\ statusText = ""
    /\ statusClass = ""
    /\ statusRole = "absent"
    /\ statusTimers = << >>
    /\ submitDisabled = FALSE
    /\ submitText = SubmitLabel
    /\ submissions = << >>

NextForm ==
    \/ \E f \in Fields : FieldFocus(f)
    \/ \E f \in Fields, to \in Fields \cup {"body"} : FieldBlur(f, to)
    \/ \E f \in Fields : \E v \in TypedValues[f] : FieldInput(f, v)
    \/ Submit
    \/ SubmitCompletes
    \/ StatusTimerFires

(***************************************************************************)
(* Page load                                                               *)
(***************************************************************************)

\* an injection that does not look for the style element first
injectStyleAlways(styles) == styles + 1

\* createScrollToTopButton: the count of style[data-scroll-to-top] elements
\* after the call; the style is appended only when the head has none
injectStyle(styles) == IF styles = 0 THEN 1 ELSE styles

\* initScrollToTop called again on the loaded page: another button with its
\* own isVisible and scrollTimeout, its listeners, its first recomputation
initScrollToTop ==
    /\ Listening("top")
    /\ Len(moreButtons) < MaxInits
    /\ scrollTopButtons' = scrollTopButtons + 1
    /\ scrollTopStyles' = injectStyle(scrollTopStyles)
    /\ moreButtons' =
           Append(moreButtons,
                  [button |-> updateButtonVisibility([isVisible |-> FALSE,
                                                      buttonClassList |-> {"scroll-to-top"}],
                                                     scrollPosition),
                   scrollTimeout |-> 0])
    /\ lastEvent' = "initScrollToTop"
    /\ lastArg' = ""
    /\ wasOpen' = isOpen
    /\ UNCHANGED <<scrollPosition, linkClassList, currentActiveLink, spyScrollTimeout,
                   topScrollTimeout, rafCallbacks, buttonClassList, isVisible,
                   recomputations, lastCancelled>>
    /\ UNCHANGED <<present, loaded, initialised, thrown>>
    /\ UNCHANGED <<navVars, formVars>>

\* init(): the behaviours whose init function ran to its end and the function
\* that raised, if one did.  initMobileNavigation calls nav.querySelectorAll
\* before it tests nav; initFormValidation calls input.addEventListener on
\* every input without a test; an exception ends init()
init(pres) ==
    IF "nav" \notin pres
    THEN [initialised |-> {}, thrown |-> "initMobileNavigation"]
    ELSE LET first == (IF "toggle" \in pres THEN {"nav"} ELSE {}) \cup {"smooth", "spy"}
         IN  IF "form" \notin pres
             THEN [initialised |-> first \cup {"top"}, thrown |-> "none"]
             ELSE IF ~(Fields \subseteq pres)
             THEN [initialised |-> first, thrown |-> "initFormValidation"]
             ELSE [initialised |-> first \cup {"form", "top"}, thrown |-> "none"]

\* the DOMContentLoaded listener
DOMContentLoaded ==
    /\ ~loaded
    /\ loaded' = TRUE
    /\ initialised' = init(present).initialised
    /\ thrown' = init(present).thrown
    /\ LET s == IF "spy" \in initialised'
                THEN updateActiveLink(Spy, scrollPosition)
                ELSE Spy
           b == IF "top" \in initialised'
                THEN updateButtonVisibility([isVisible |-> FALSE,
                                             buttonClassList |-> {"scroll-to-top"}],
                                            scrollPosition)
                ELSE Button
       IN  /\ currentActiveLink' = s.currentActiveLink
           /\ linkClassList' = s.linkClassList
           /\ isVisible' = b.isVisible
           /\ buttonClassList' = b.buttonClassList
    /\ scrollTopButtons' = IF "top" \in initialised' THEN scrollTopButtons + 1 ELSE scrollTopButtons
    /\ scrollTopStyles' = IF "top" \in initialised' THEN injectStyle(scrollTopStyles)
                                                       ELSE scrollTopStyles
    /\ recomputations' = [spy |-> IF "spy" \in initialised' THEN 1 ELSE 0,
                          top |-> IF "top" \in initialised' THEN 1 ELSE 0]
    /\ lastEvent' = "DOMContentLoaded"
    /\ lastArg' = ""
    /\ wasOpen' = isOpen
    /\ UNCHANGED <<scrollPosition, spyScrollTimeout, topScrollTimeout, rafCallbacks,
                   moreButtons, lastCancelled, present>>
    /\ UNCHANGED <<navVars, formVars>>

\* the document before its script ran; at most one looked-up element is missing
InitMarkup ==
    /\ InitMenu /\ activeElement = "body" /\ innerWidth \in Widths
    /\ InitForm
    /\ scrollPosition = 0
    /\ currentActiveLink = "null"
    /\ linkClassList = [i \in LinkIdx |-> {}]
    /\ isVisible = FALSE
    /\ buttonClassList = {}
    /\ spyScrollTimeout = 0
    /\ topScrollTimeout = 0
    /\ rafCallbacks = << >>
    /\ moreButtons = << >>
    /\ recomputations = [spy |-> 0, top |-> 0]
    /\ lastCancelled = {}
    /\ \E missing \in SUBSET LookedUp :
          Cardinality(missing) <= 1 /\ present = LookedUp \ missing
    /\ loaded = FALSE
    /\ initialised = {}
    /\ scrollTopButtons = 0
    /\ scrollTopStyles = 0
    /\ thrown = "none"

\* the complete document after init()
InitLoaded ==
    /\ present = LookedUp
    /\ loaded = TRUE
    /\ initialised = Behaviours
    /\ scrollTopButtons = 1
    /\ scrollTopStyles = 1
    /\ thrown = "none"

NextLoad ==
    \/ DOMContentLoaded
    \/ ToggleClick
    \/ FragmentLinkClick("#name")
    \/ Submit
    \/ StatusTimerFires
    \/ \E p \in {0, MaxScroll} : Scroll(p)
    \/ AnimationFrame

(***************************************************************************)
(* Specifications                                                          *)
(***************************************************************************)

\* the page after init() found every element it looks up
Init == InitLoaded /\ InitNav /\ InitScroll /\ InitForm

\* the navigation toggle and the smooth scrolling of its links
SpecNav == Init /\ [][NextNav]_vars

\* the page of SpecScroll: the same, at the desktop breakpoint
InitScrollPage == Init /\ innerWidth = Breakpoint

\* the scroll spy and the scroll-to-top button
SpecScroll == InitScrollPage /\ [][NextScroll]_vars

\* the contact form
SpecForm == InitScrollPage /\ [][NextForm]_vars

\* scroll positions of the page under fair frames: the top, a position in the
\* link-less section and the bottom
FrameStops == {0, 640, MaxScroll}

NextFrames ==
    \/ \E p \in FrameStops : Scroll(p)
    \/ AnimationFrame
    \/ ScrollTopClick

\* the scrolled page in a browser that keeps running animation frames
SpecFrames == InitScrollPage /\ [][NextFrames]_vars /\ WF_vars(AnimationFrame)

\* the page load of a document that may lack an element, and events after it
SpecLoad == InitMarkup /\ [][NextLoad]_vars

NextReinit ==
    \/ initScrollToTop
    \/ \E p \in {0, 300, 301, MaxScroll} : Scroll(p)
    \/ AnimationFrame

\* the loaded page on which initScrollToTop is called again
SpecReinit == InitScrollPage /\ [][NextReinit]_vars

\* one field holds a value and the focus; the others are empty
InitRules ==
    /\ InitLoaded /\ InitMenu /\ InitScroll /\ innerWidth = Breakpoint
    /\ \E g \in Fields : \E v \in RuleValues \cup EmailValues :
          /\ activeElement = g
          /\ value = [f \in Fields |-> IF f = g THEN v ELSE << >>]
    /\ fieldClassList = [f \in Fields |-> {}]
    /\ ariaInvalid = [f \in Fields |-> "absent"]
    /\ errorText = [f \in Fields |-> ""]
    /\ statusText = ""
    /\ statusClass = ""
    /\ statusRole = "absent"
    /\ statusTimers = << >>
    /\ submitDisabled = FALSE
    /\ submitText = SubmitLabel
    /\ submissions = << >>

NextRules == \E f \in Fields : FieldBlur(f, "body")

\* the rules of validateField, tried on one field at a time
SpecRules == InitRules /\ [][NextRules]_vars

\* the form after the user typed and left email, subject and message and came
\* back to the empty name input
InitFilled ==
    /\ InitLoaded /\ InitMenu /\ InitScroll /\ innerWidth = Breakpoint
    /\ activeElement = "name"
    /\ value = [f \in Fields |->
                   IF f = "name" THEN << >> ELSE CHOOSE v \in TypedValues[f] : TRUE]
    /\ fieldClassList = [f \in Fields |-> IF f = "name" THEN {} ELSE {"valid"}]
    /\ ariaInvalid = [f \in Fields |-> IF f = "name" THEN "absent" ELSE "false"]
    /\ errorText = [f \in Fields |-> ""]
    /\ statusText = ""
    /\ statusClass = ""
    /\ statusRole = "absent"
    /\ statusTimers = << >>
    /\ submitDisabled = FALSE
    /\ submitText = SubmitLabel
    /\ submissions = << >>

NextStatus ==
    \/ \E v \in TypedValues["name"] : FieldInput("name", v)
    \/ Submit
    \/ SubmitCompletes
    \/ StatusTimerFires

\* submit events on that form, in an event loop that runs every timer that is
\* due: neither the 5 s auto-clear timers nor the 1.5 s timer of submitForm is
\* ever cancelled
SpecStatus ==
    /\ InitFilled
    /\ [][NextStatus]_vars
    /\ WF_vars(StatusTimerFires)
    /\ SF_vars(SubmitCompletes)

(***************************************************************************)
(* Properties of the navigation toggle                                     *)
(***************************************************************************)

\* C1: in every reachable state the trigger's aria-expanded is the string form
\* of isOpen and the navigation carries the class "open" exactly when isOpen.
C1_AriaMatchesIsOpen ==
    /\ ariaExpanded = (IF isOpen THEN "true" ELSE "false")
    /\ ("open" \in navClassList) = isOpen

\* the menu was opened with Enter or Space on the trigger
C1_Witness ==
    lastEvent = "toggle_keydown" /\ isOpen /\ ariaExpanded = "true" /\ "open" \in navClassList

\* C2: every step that takes the menu from closed to open schedules the
\* callback that focuses the first navigation link.
C2_OpenSchedulesFirstLinkFocus ==
    [][(~isOpen /\ isOpen') =>
          \E k \in 1..Len(focusTimers') :
              focusTimers'[k] = [kind |-> "firstLink", target |-> NavLinkEls[1]]]_vars

\* C3: every step that takes the menu from open to closed leaves the focus on
\* the trigger.
C3_CloseFocusesTrigger ==
    [][(isOpen /\ ~isOpen') => activeElement' = "toggle"]_vars

(***************************************************************************)
(* Properties of the page load                                             *)
(***************************************************************************)

\* the elements a behaviour looks up and uses without which it cannot work
Requires(b) ==
    IF b = "nav" THEN {"toggle", "nav"}
    ELSE IF b = "spy" THEN {"nav"}
    ELSE IF b = "form" THEN {"form", "name", "email", "subject", "message",
                             "form-status", "submit"}
    ELSE {}

\* C4: after the page load no exception has gone unhandled, and every
\* behaviour whose elements are all present has been initialised, whichever
\* element of another behaviour is missing.
C4_MissingElementsDegradeGracefully ==
    loaded =>
        /\ thrown = "none"
        /\ \A b \in Behaviours : Requires(b) \subseteq present => b \in initialised

(***************************************************************************)
(* Properties of the scroll spy and of the scheduling                      *)
(***************************************************************************)

ActiveLinks == {i \in LinkIdx : "active" \in linkClassList[i]}

\* C5: at most one navigation link carries the class "active".
C5_AtMostOneActive == Cardinality(ActiveLinks) <= 1

\* a recomputation moved the marker to the second link
C5_Witness ==
    lastEvent = "frame" /\ recomputations.spy = 1 /\ ActiveLinks = {2}

\* s.offsetTop - (HeaderHeight + 100) <= p < s.offsetTop - (HeaderHeight + 100) + s.offsetHeight
AdjustedSpanHas(k, p) ==
    /\ Sections[k].offsetTop - (HeaderHeight + 100) <= p
    /\ p < Sections[k].offsetTop - (HeaderHeight + 100) + Sections[k].offsetHeight

NearBottom(p) == p + WindowHeight >= DocumentHeight - 10

LinkNames(i, k) == NavLinkHrefs[i] = "#" \o Sections[k].id

\* C6 as stated: once the recomputation for the current position has run (the
\* bottom of the document excepted), at most one link is active and an active
\* link names a section whose adjusted span contains the position.
C6_ActiveLinkMatchesSpan ==
    (recomputations.spy > 0 /\ ~NearBottom(scrollPosition)) =>
        /\ Cardinality(ActiveLinks) <= 1
        /\ \A i \in ActiveLinks :
              \E k \in 1..NumSections : LinkNames(i, k) /\ AdjustedSpanHas(k, scrollPosition)

\* C6 amended: the same, for the positions that lie in the adjusted span of
\* some section.
C6_ActiveLinkMatchesSpanWhenInSpan ==
    (/\ recomputations.spy > 0
     /\ ~NearBottom(scrollPosition)
     /\ \E k \in 1..NumSections : AdjustedSpanHas(k, scrollPosition)) =>
        /\ Cardinality(ActiveLinks) <= 1
        /\ \A i \in ActiveLinks :
              \E k \in 1..NumSections : LinkNames(i, k) /\ AdjustedSpanHas(k, scrollPosition)

\* the recomputation ran inside the span of "projects" and marked its link
C6_Witness ==
    /\ lastEvent = "frame" /\ recomputations.spy = 1
    /\ ~NearBottom(scrollPosition)
    /\ AdjustedSpanHas(2, scrollPosition)
    /\ ActiveLinks = {2}

\* C7: once the recomputation has run at a position within 10 units of the
\* document bottom, the link of the last section is the active one.
C7_BottomForcesLastSection ==
    (recomputations.spy > 0 /\ NearBottom(scrollPosition)) =>
        ActiveLinks = {i \in LinkIdx : LinkNames(i, NumSections)}

PendingFor(fn) == {k \in 1..Len(rafCallbacks) : rafCallbacks[k].fn = fn}

\* C8: each behaviour has at most one pending callback and runs at most once
\* per frame, and a scroll event that finds a callback pending cancels it and
\* leaves exactly one replacement with another handle.
C8_CoalescedScheduling ==
    /\ [](\A fn \in {"updateActiveLink", "updateButtonVisibility"} :
             Cardinality(PendingFor(fn)) <= 1)
    /\ [](recomputations.spy <= 1 /\ recomputations.top <= 1)
    /\ [][(scrollPosition' # scrollPosition) =>
            \A k \in 1..Len(rafCallbacks) :
                /\ \A j \in 1..Len(rafCallbacks') :
                       rafCallbacks'[j].handle # rafCallbacks[k].handle
                /\ \E j \in 1..Len(rafCallbacks') :
                       rafCallbacks'[j].fn = rafCallbacks[k].fn]_vars

\* a scroll event arrived while both callbacks were pending and replaced them
C8_Witness ==
    /\ lastEvent = "scroll"
    /\ Cardinality(lastCancelled) = 2
    /\ Cardinality(PendingFor("updateActiveLink")) = 1
    /\ Cardinality(PendingFor("updateButtonVisibility")) = 1

(***************************************************************************)
(* Properties of the form validator                                        *)
(***************************************************************************)

\* C9: no field is marked valid while it carries an error message, and a
\* field's error text is non-empty exactly when it is marked invalid.
C9_MarkerMatchesError ==
    \A f \in Fields :
        /\ ~("valid" \in fieldClassList[f] /\ errorText[f] # "")
        /\ (errorText[f] # "") = ("invalid" \in fieldClassList[f])

\* a blur marked a field invalid while a simulated submission was pending
C9_Witness ==
    /\ lastEvent = "blur"
    /\ submissions # << >>
    /\ \E f \in Fields : "invalid" \in fieldClassList[f] /\ errorText[f] # ""

FieldLabel == [name |-> "Name", subject |-> "Subject", message |-> "Message"]

MinLength == [name |-> 2, subject |-> 5, message |-> 20]

MinLengthText == [name |-> "2", subject |-> "5", message |-> "20"]

\* C10: after validateField ran on name, subject or message, the field shows
\* "<Field> is required" when its trimmed value is empty, "<Field> must be at
\* least N characters" when the trimmed length is below N, and otherwise no
\* error and the marker "valid".
C10_FirstFailingRuleReported ==
    \A f \in {"name", "subject", "message"} :
        (lastEvent = "blur" /\ fieldClassList[f] # {}) =>
            LET n == Len(Trim(value[f]))
            IN  IF n = 0
                THEN /\ errorText[f] = FieldLabel[f] \o " is required"
                     /\ fieldClassList[f] = {"invalid"}
                ELSE IF n < MinLength[f]
                THEN /\ errorText[f] = FieldLabel[f] \o " must be at least "
                                           \o MinLengthText[f] \o " characters"
                     /\ fieldClassList[f] = {"invalid"}
                ELSE /\ errorText[f] = ""
                     /\ fieldClassList[f] = {"valid"}

\* a message of 19 letters after a blank was validated and refused
C10_Witness ==
    /\ lastEvent = "blur"
    /\ value["message"] = Pad(1, 19, 0)
    /\ errorText["message"] = "Message must be at least 20 characters"
    /\ fieldClassList["message"] = {"invalid"}

\* the positions of "@" in v
AtSigns(v) == {k \in 1..Len(v) : v[k] = "@"}

\* v has the shape local@domain.tld: no whitespace, one "@", a non-empty part
\* before it, and after it a part that a "." splits into two non-empty parts
HasAddressShape(v) ==
    /\ \A k \in 1..Len(v) : v[k] \notin {" ", "\t", "\n"}
    /\ Cardinality(AtSigns(v)) = 1
    /\ LET a == CHOOSE k \in AtSigns(v) : TRUE
           local == SubSeq(v, 1, a - 1)
           rest == SubSeq(v, a + 1, Len(v))
       IN  /\ local # << >>
           /\ \E d \in 1..Len(rest) :
                  /\ rest[d] = "."
                  /\ SubSeq(rest, 1, d - 1) # << >>
                  /\ SubSeq(rest, d + 1, Len(rest)) # << >>

\* C11: after validateField ran on email, the field shows "Email is required"
\* when its trimmed value is empty, "Please enter a valid email address" when
\* the value is not empty and does not have the shape local@domain.tld, and
\* otherwise no error and the marker "valid".
C11_EmailRule ==
    (lastEvent = "blur" /\ fieldClassList["email"] # {}) =>
        IF Len(Trim(value["email"])) = 0
        THEN /\ errorText["email"] = "Email is required"
             /\ fieldClassList["email"] = {"invalid"}
        ELSE IF ~HasAddressShape(value["email"])
        THEN /\ errorText["email"] = "Please enter a valid email address"
             /\ fieldClassList["email"] = {"invalid"}
        ELSE /\ errorText["email"] = ""
             /\ fieldClassList["email"] = {"valid"}

\* "a@b." was validated and refused for the part it lacks after the dot
C11_Witness ==
    /\ lastEvent = "blur"
    /\ value["email"] = <<"a", "@", "b", ".">>
    /\ errorText["email"] = "Please enter a valid email address"
    /\ fieldClassList["email"] = {"invalid"}

\* the value v satisfies what the form asks of field f
ValueAccepted(f, v) ==
    IF f = "email" THEN Len(Trim(v)) > 0 /\ HasAddressShape(v)
    ELSE Len(Trim(v)) >= MinLength[f]

\* the fields, in document order, whose value the form refuses
RefusedFields == SelectSeq(FieldOrder, LAMBDA f : ~ValueAccepted(f, value[f]))

\* C12: a submit event that finds a refused value has its default prevented,
\* writes "Please fix the errors above" to the status region, puts the focus
\* on the first refused field in document order, starts no simulated
\* submission (the submit control and the pending submissions stay as they
\* were) and leaves every value as it was.
C12_InvalidSubmitIsRefused ==
    [][(lastEvent' = "submit" /\ RefusedFields # << >>) =>
          /\ defaultPrevented'
          /\ statusText' = "Please fix the errors above"
          /\ statusClass' = "error"
          /\ activeElement' = Head(RefusedFields)
          /\ submissions' = submissions
          /\ submitDisabled' = submitDisabled
          /\ submitText' = submitText
          /\ value' = value]_vars

\* a submit with a good name and no email put the focus on the email input
C12_Witness ==
    /\ lastEvent = "submit"
    /\ value["name"] = <<"A", "l">>
    /\ value["email"] = << >>
    /\ statusText = "Please fix the errors above"
    /\ activeElement = "email"
    /\ defaultPrevented
    /\ ~submitDisabled

\* no field holds a value, a marker, an aria-invalid attribute or an error text
FormIsPristine ==
    \A f \in Fields :
        /\ value[f] = << >>
        /\ "invalid" \notin fieldClassList[f] /\ "valid" \notin fieldClassList[f]
        /\ ariaInvalid[f] = "absent"
        /\ errorText[f] = ""

\* the simulated submission ended: success status, pristine form
SubmissionSucceeded ==
    /\ lastEvent = "submitted"
    /\ statusText = "Message sent successfully! I will get back to you soon."
    /\ statusClass = "success"
    /\ FormIsPristine

\* C13: a submit event that finds every value accepted is followed, when the
\* 1.5 s timer of the simulated submission fires, by a state in which the
\* status region shows the success message, every field is empty and no field
\* carries a marker or an error text.
C13_ValidSubmitSucceeds ==
    (lastEvent = "submit" /\ RefusedFields = << >>) ~> SubmissionSucceeded

\* the one pending submission of the filled-in form ended
C13_Witness ==
    /\ SubmissionSucceeded
    /\ submissions = << >>
    /\ submitText = SubmitLabel

\* C14: while a simulated submission is pending the submit control is
\* disabled and labelled "Sending..."; the step that ends a submission enables
\* the control and gives it the text it had when that submission began; the
\* failure status is never shown.
C14_SubmitControlLifecycle ==
    /\ [](submissions # << >> => (submitDisabled /\ submitText = "Sending..."))
    /\ [][lastEvent' = "submitted" =>
            (~submitDisabled' /\ submitText' = Head(submissions))]_vars
    /\ [](statusText # "Failed to send message. Please try again later.")

\* the step is a submit event that is refused or the end of a simulated
\* submission: the two places that show a status message
ShowsStatus == LET refused == RefusedFields # << >>
               IN  (lastEvent' = "submit" /\ refused) \/ lastEvent' = "submitted"

\* C15: every step that shows a status message sets a timer for it; a timer
\* that fires leaves the region's text and class empty; and a region that
\* shows a message is later empty.
C15_StatusAutoClears ==
    /\ [][ShowsStatus =>
            (/\ statusText' # ""
             /\ statusTimers' = Append(statusTimers, [message |-> statusText']))]_vars
    /\ [][lastEvent' = "status_timer" => (statusText' = "" /\ statusClass' = "")]_vars
    /\ (statusText # "") ~> (statusText = "" /\ statusClass = "")

\* the only message shown so far, an error, was cleared by its timer
C15_Witness ==
    /\ lastEvent = "status_timer"
    /\ statusRole = "alert"
    /\ statusTimers = << >>
    /\ statusText = "" /\ statusClass = ""

\* the timer set for the message shown last
NewestTimer == statusTimers[Len(statusTimers)]

\* C16: a pending auto-clear timer leaves the queue only by firing, and when
\* a timer fires while the region shows a newer message whose own timer is
\* still pending, the region is emptied although that newer timer has not
\* fired yet.
C16_StaleTimerBlanksNewerMessage ==
    /\ [][statusTimers' # statusTimers =>
            \/ lastEvent' = "status_timer" /\ statusTimers' = Tail(statusTimers)
            \/ /\ Len(statusTimers') = Len(statusTimers) + 1
               /\ SubSeq(statusTimers', 1, Len(statusTimers)) = statusTimers]_vars
    /\ [][(/\ lastEvent' = "status_timer"
           /\ Len(statusTimers) >= 2
           /\ statusText = NewestTimer.message) =>
            (/\ statusText' = "" /\ statusClass' = ""
             /\ statusTimers' # << >>
             /\ statusTimers'[Len(statusTimers')] = NewestTimer)]_vars

\* the timer of an error message emptied the region while it showed the
\* success message, whose own timer is still pending
C16_Witness ==
    /\ lastEvent = "status_timer"
    /\ statusText = ""
    /\ statusRole = "status"
    /\ statusTimers = << [message |-> "Message sent successfully! I will get back to you soon."] >>
    /\ submitText = SubmitLabel

(***************************************************************************)
(* Properties of the scroll-to-top button                                  *)
(***************************************************************************)

\* C17: once the visibility recomputation has run for the current scroll
\* position, the button carries the class "visible" exactly when the position
\* is greater than 300.
C17_VisibleExactlyAbove300 ==
    recomputations.top > 0 => (("visible" \in buttonClassList) = (scrollPosition > 300))

\* the page was scrolled from the top to 301 and the recomputation showed the
\* button
C17_Witness ==
    /\ lastEvent = "frame" /\ recomputations.top = 1
    /\ scrollPosition = 301
    /\ "visible" \in buttonClassList
    /\ isVisible

\* C18: a click on the button requests a scroll to position 0, and when the
\* position is 0 after such a request and the recomputation has run for it,
\* the button is hidden.
C18_ClickScrollsToTopAndHides ==
    /\ [][lastEvent' = "top_click" => scrollRequest' = 0]_vars
    /\ []((scrollRequest = 0 /\ scrollPosition = 0 /\ recomputations.top > 0) =>
             ("visible" \notin buttonClassList /\ ~isVisible))

\* the button was clicked, the page scrolled to 0 and the recomputation hid it
C18_Witness ==
    /\ lastEvent = "frame" /\ recomputations.top = 1
    /\ scrollRequest = 0
    /\ scrollPosition = 0
    /\ "visible" \notin buttonClassList

\* C19: whenever initScrollToTop has been called, however often, the head
\* holds exactly one style[data-scroll-to-top] element.
C19_OneStyleElement ==
    scrollTopButtons >= 1 => scrollTopStyles = 1

\* the third call of initScrollToTop left one style element and three buttons
C19_Witness ==
    /\ lastEvent = "initScrollToTop"
    /\ Len(moreButtons) = 2
    /\ scrollTopButtons = 3
    /\ scrollTopStyles = 1

\* C20: in every state after the page load the document holds exactly one
\* element with the id "scroll-to-top".
C20_ExactlyOneButton ==
    loaded => scrollTopButtons = 1

(***************************************************************************)
(* Properties of the dismissal of the menu                                 *)
(***************************************************************************)

\* C21: in every reachable state the inline overflow of the body is "hidden"
\* when the menu is open and "" when it is closed.
C21_ScrollLockMatchesIsOpen ==
    bodyOverflow = (IF isOpen THEN "hidden" ELSE "")

\* the Escape key on a navigation link closed the menu and unlocked the body
C21_Witness ==
    /\ lastEvent = "link_keydown" /\ lastArg = "Escape"
    /\ wasOpen /\ ~isOpen
    /\ bodyOverflow = ""

\* C22: after the click on a navigation link has been handled, the menu is
\* closed and the trigger's aria-expanded is "false", whether the menu was
\* open or closed before.
C22_LinkClickClosesMenu ==
    lastEvent = "link_click" => (~isOpen /\ ariaExpanded = "false")

\* a click on a navigation link closed the open menu
C22_Witness ==
    /\ lastEvent = "link_click"
    /\ wasOpen /\ ~isOpen
    /\ ariaExpanded = "false"

KeydownEvents == {"toggle_keydown", "link_keydown", "document_keydown"}

\* C23: a click that found the menu open and whose target is inside neither
\* the navigation nor the trigger leaves it closed; an Escape keydown that
\* found the menu open leaves it closed, wherever the focus was; a click
\* inside the navigation and on no link leaves an open menu open.
C23_OutsideClickAndEscapeClose ==
    /\ (/\ lastEvent = "document_click" /\ wasOpen
        /\ ~InsideNav(lastArg) /\ ~InsideToggle(lastArg)) => ~isOpen
    /\ (lastEvent \in KeydownEvents /\ lastArg = "Escape" /\ wasOpen) => ~isOpen
    /\ (lastEvent = "document_click" /\ wasOpen /\ lastArg = "nav_padding") => isOpen

\* a click on the page outside the navigation closed the open menu
C23_Witness ==
    /\ lastEvent = "document_click" /\ lastArg = "page"
    /\ wasOpen /\ ~isOpen
    /\ ariaExpanded = "false"

\* C24: a resize event handled at a width of 768 or more leaves the menu
\* closed; one handled at a smaller width changes neither isOpen, nor
\* aria-expanded, nor the overflow of the body, nor the focus.
C24_ResizeClosesAboveBreakpoint ==
    [][lastEvent' = "resize" =>
          IF innerWidth' >= 768
          THEN ~isOpen'
          ELSE /\ isOpen' = isOpen
               /\ ariaExpanded' = ariaExpanded
               /\ bodyOverflow' = bodyOverflow
               /\ activeElement' = activeElement]_vars

\* a resize to 768 closed the open menu
C24_Witness ==
    /\ lastEvent = "resize" /\ innerWidth = 768
    /\ wasOpen /\ ~isOpen
    /\ bodyOverflow = ""

(***************************************************************************)
(* Properties of the keyboard navigation                                   *)
(***************************************************************************)

\* the navigation link with the index i of the source, which counts from 0
LinkAt(i) == NavLinkEls[i + 1]

\* the index, counted from 0, of the navigation link el
IndexOfLink(el) == CHOOSE i \in 0..(NumLinks - 1) : LinkAt(i) = el

\* C25: a keydown of ArrowDown, ArrowUp, Home or End on the focused link i of
\* n moves the focus to link (i + 1) mod n, (i - 1 + n) mod n, 0 and n - 1,
\* and leaves isOpen as it was.
C25_ArrowKeysCycle ==
    [][(lastEvent' = "link_keydown"
            /\ lastArg' \in {"ArrowDown", "ArrowUp", "Home", "End"}) =>
          LET i == IndexOfLink(activeElement)
              n == NumLinks
          IN  /\ activeElement' = LinkAt(IF lastArg' = "ArrowDown" THEN (i + 1) % n
                                         ELSE IF lastArg' = "ArrowUp" THEN (i - 1 + n) % n
                                         ELSE IF lastArg' = "Home" THEN 0
                                         ELSE n - 1)
              /\ isOpen' = isOpen]_vars

\* ArrowDown on the last link of the open menu moved the focus to the first
C25_Witness ==
    /\ lastEvent = "link_keydown" /\ lastArg = "ArrowDown"
    /\ activeElement = LinkAt(0)
    /\ wasOpen /\ isOpen

\* the last event was a click on a link that carries the smooth-scroll listener
FragmentClickStep == lastEvent' \in {"link_click", "fragment_click"} /\ Listening("smooth")

\* some element of the document carries the id the fragment names
NamesElement(href) ==
    \E k \in 1..NumAnchors : InDocument(Anchors[k].id) /\ href = "#" \o Anchors[k].id

\* C26: a click on a fragment link whose href is '#' or '#!', or whose fragment
\* names no element of the document, is left to the browser: the default action
\* is not prevented, no scroll is requested, no history entry is pushed and no
\* focus change is scheduled
C26_UnresolvedFragmentIsLeftAlone ==
    [][(FragmentClickStep /\ (lastArg' \in {"#", "#!"} \/ ~NamesElement(lastArg'))) =>
          /\ ~defaultPrevented'
          /\ scrollRequest' = scrollRequest
          /\ history' = history
          /\ focusTimers' = focusTimers]_vars

\* a link to a missing element was clicked after a link that was intercepted
C26_Witness ==
    /\ lastEvent = "fragment_click"
    /\ lastArg = "#missing"
    /\ history = << "#name" >>
    /\ Len(focusTimers) = 1
    /\ ~defaultPrevented

\* getBoundingClientRect().top + pageYOffset of the element the fragment names
TargetTop(href) ==
    LET k == CHOOSE j \in 1..NumAnchors : href = "#" \o Anchors[j].id
    IN  Anchors[k].offsetTop

\* C27: a click on a fragment link whose target resolves is intercepted: the
\* default action is suppressed, the scroll requested goes to the target's
\* absolute top less the header's height (0 without a header) less 20, and
\* exactly one history entry, carrying the fragment, is pushed
C27_ResolvedFragmentScrollsBelowHeader ==
    [][(FragmentClickStep /\ lastArg' \notin {"#", "#!"} /\ NamesElement(lastArg')) =>
          /\ defaultPrevented'
          /\ scrollRequest' = TargetTop(lastArg')
                                - (IF "header" \in present THEN Page.headerHeight ELSE 0) - 20
          /\ history' = Append(history, lastArg')]_vars

\* the link to the name field was clicked in a document without a header
C27_Witness ==
    /\ lastEvent = "fragment_click"
    /\ lastArg = "#name"
    /\ "header" \notin present
    /\ defaultPrevented
    /\ scrollRequest = 1110
    /\ history = << "#name" >>

\* C28: when the timer of an intercepted click fires, focus is on the target;
\* the target is given a tabindex only if it could not take focus before, and
\* a natively focusable target is left without one
C28_FocusLandsOnTarget ==
    [][(lastEvent' = "focus_timer" /\ focusTimers # << >> /\ focusTimers' = Tail(focusTimers)) =>
          LET target == Head(focusTimers).target
          IN  /\ activeElement' = target
              /\ tabindex' # tabindex =>
                    (target \notin NativelyFocusable /\ target \notin tabindex
                     /\ tabindex' = tabindex \cup {target})
              /\ target \in NativelyFocusable => tabindex' = tabindex]_vars

\* focus reached the name field, which got no tabindex, after a section got one
C28_Witness ==
    /\ lastEvent = "focus_timer"
    /\ activeElement = "name"
    /\ tabindex = {"about"}

\* the field shows the outcome of validating v: the markers, aria-invalid and
\* the error text of an accepted or of a refused value
ShowsValidationOf(f, v) ==
    IF ValueAccepted(f, v)
    THEN /\ "valid" \in fieldClassList'[f] /\ "invalid" \notin fieldClassList'[f]
         /\ ariaInvalid'[f] = "false"
         /\ errorText'[f] = ""
    ELSE /\ "invalid" \in fieldClassList'[f] /\ "valid" \notin fieldClassList'[f]
         /\ ariaInvalid'[f] = "true"
         /\ errorText'[f] # ""

\* markers, aria-invalid and error text of every field are as before the step
FieldMarkersUnchanged ==
    /\ fieldClassList' = fieldClassList
    /\ ariaInvalid' = ariaInvalid
    /\ errorText' = errorText

\* C29: a blur always validates the field that lost focus; an input event
\* validates the field only if it carries 'invalid', and on a valid or neutral
\* field it changes no marker, aria-invalid or error text, whatever the new value
C29_ValidationTriggers ==
    [][/\ (lastEvent' = "blur" /\ activeElement \in Fields /\ activeElement' # activeElement) =>
             ShowsValidationOf(activeElement, value[activeElement])
       /\ (lastEvent' = "input" /\ activeElement \in Fields /\ value' # value) =>
             IF "invalid" \in fieldClassList[activeElement]
             THEN ShowsValidationOf(activeElement, value'[activeElement])
             ELSE FieldMarkersUnchanged]_vars

\* a one-letter name was typed into the name field while it was marked valid,
\* and the field kept its marker
C29_Witness ==
    /\ lastEvent = "input"
    /\ activeElement = "name"
    /\ value["name"] = << "A" >>
    /\ "valid" \in fieldClassList["name"]
    /\ ariaInvalid["name"] = "false"
    /\ errorText["name"] = ""

\* the href a recomputation at position p passes to setActiveLink: the last
\* section's at the bottom of the page, else that of the section whose adjusted
\* span holds p, "none" if there is no such section
YieldedHref(p) ==
    IF NearBottom(p) THEN "#" \o Sections[NumSections].id
    ELSE IF \E k \in 1..NumSections : AdjustedSpanHas(k, p)
    THEN "#" \o Sections[CHOOSE k \in 1..NumSections :
                             /\ AdjustedSpanHas(k, p)
                             /\ \A j \in 1..NumSections : AdjustedSpanHas(j, p) => j <= k].id
    ELSE "none"

\* C30: a recomputation that yields the href currentActiveLink already holds
\* writes no class list: no link gains or loses 'active', and currentActiveLink
\* stays
C30_SameHrefWritesNothing ==
    [][(/\ lastEvent' = "frame" /\ rafCallbacks # << >>
        /\ recomputations'.spy = 1
        /\ YieldedHref(scrollPosition) = currentActiveLink) =>
          (linkClassList' = linkClassList /\ currentActiveLink' = currentActiveLink)]_vars

\* a recomputation yielded '#projects' while currentActiveLink held it and no
\* link was active, and left every class list as it was
C30_Witness ==
    /\ lastEvent = "frame"
    /\ recomputations.spy = 1
    /\ currentActiveLink = "#projects"
    /\ YieldedHref(scrollPosition) = "#projects"
    /\ \A i \in LinkIdx : "active" \notin linkClassList[i]

\* the pending callbacks in the opposite order
ReversedCallbacks == [k \in 1..Len(rafCallbacks) |-> rafCallbacks[Len(rafCallbacks) + 1 - k]]

NoRuns == [spy |-> 0, top |-> 0]

\* C31: Scroll Spy and Scroll-To-Top are independent: running the pending
\* recomputations in either order gives the same active link and the same
\* button visibility, the two behaviours hold different handles, and after a
\* scroll event each has its own pending callback, one behaviour's
\* cancellation having removed only its own
C31_ScrollBehavioursIndependent ==
    /\ [](LET inOrder == RunCallbacks(rafCallbacks, Spy, Button, moreButtons, NoRuns)
              reversed == RunCallbacks(ReversedCallbacks, Spy, Button, moreButtons, NoRuns)
          IN  inOrder.spy = reversed.spy /\ inOrder.button = reversed.button)
    /\ [](\A j, k \in 1..Len(rafCallbacks) :
             rafCallbacks[j].fn # rafCallbacks[k].fn => rafCallbacks[j].handle # rafCallbacks[k].handle)
    /\ [][(scrollPosition' # scrollPosition) =>
             /\ Cardinality(PendingFor("updateActiveLink")') = 1
             /\ Cardinality(PendingFor("updateButtonVisibility")') = 1
             /\ \A k \in 1..Len(rafCallbacks) :
                   rafCallbacks[k].handle \notin Handles(rafCallbacks') =>
                      rafCallbacks[k].handle =
                         (IF rafCallbacks[k].fn = "updateActiveLink"
                          THEN spyScrollTimeout ELSE topScrollTimeout)]_vars

\* both recomputations are pending after a scroll event that cancelled two
\* older callbacks, and each is about to change its own behaviour's state
C31_Witness ==
    /\ lastEvent = "scroll"
    /\ Len(rafCallbacks) = 2
    /\ Cardinality(lastCancelled) = 2
    /\ RunCallbacks(rafCallbacks, Spy, Button, moreButtons, NoRuns).spy # Spy
    /\ RunCallbacks(rafCallbacks, Spy, Button, moreButtons, NoRuns).button # Button

ErrorMessages == {"Please fix the errors above",
                  "Failed to send message. Please try again later."}

\* C32: while the status region shows an error message its role is 'alert' and
\* its class 'error'; while it shows the success message its role is 'status'
\* and its class 'success'
C32_StatusSeverity ==
    /\ statusText \in ErrorMessages => (statusRole = "alert" /\ statusClass = "error")
    /\ statusText = "Message sent successfully! I will get back to you soon." =>
          (statusRole = "status" /\ statusClass = "success")

\* the success message replaced an error message whose timer is still pending
C32_Witness ==
    /\ statusText = "Message sent successfully! I will get back to you soon."
    /\ statusRole = "status"
    /\ Len(statusTimers) = 2
    /\ statusTimers[1].message \in ErrorMessages

\* C33: if currentActiveLink is the href of a navigation link, that link
\* carries 'active'
C33_PointerNamesActiveLink ==
    \A i \in LinkIdx :
        currentActiveLink = NavLinkHrefs[i] => "active" \in linkClassList[i]

\* the last frame ran both recomputations, and no scroll event came after it
BothRecomputed == recomputations.spy = 1 /\ recomputations.top = 1

\* C34: while animation frames keep occurring, every scroll event is followed
\* by a frame that runs a Scroll Spy and a Scroll-To-Top recomputation against
\* the position of that event, unless a later scroll event moved the page
\* again; so the last scroll event never stays without its recomputations
C34_NoLostUpdate ==
    \A p \in FrameStops :
        (lastEvent = "scroll" /\ scrollPosition = p)
            ~> \/ scrollPosition # p
               \/ (BothRecomputed /\ scrollPosition = p /\ rafCallbacks = << >>)

\* both recomputations ran in a frame after a scroll event that had cancelled
\* the callbacks of an earlier one
C34_Witness ==
    /\ lastEvent = "frame"
    /\ BothRecomputed
    /\ Cardinality(lastCancelled) = 2
    /\ scrollPosition = MaxScroll

\* C35: whenever no simulated submission is pending, the submit control is
\* enabled and labelled with its original text
C35_SubmitControlRestored ==
    submissions = << >> => (~submitDisabled /\ submitText = SubmitLabel)

\* the events that reach closeMenu or one of the handlers that call it
ClosingEvent ==
    \/ lastEvent' \in {"link_click", "fragment_click", "document_click", "resize"}
    \/ (lastEvent' \in KeydownEvents /\ lastArg' = "Escape")

ClickEvents == {"link_click", "fragment_click", "document_click"}

\* C36: a navigation-link click, an outside click, an Escape keydown or a
\* resize on a closed menu changes neither isOpen, aria-expanded, the 'open'
\* class nor body overflow, and does not move focus to the trigger: focus stays
\* where it is, or goes to the clicked link when the browser focuses it
C36_CloseOnClosedMenuIsNoOp ==
    [][(ClosingEvent /\ ~isOpen) =>
          /\ isOpen' = isOpen
          /\ ariaExpanded' = ariaExpanded
          /\ navClassList' = navClassList
          /\ bodyOverflow' = bodyOverflow
          /\ \/ activeElement' = activeElement
             \/ /\ lastEvent' \in ClickEvents
                /\ activeElement' \in {NavLinkEls[i] : i \in LinkIdx} \cup {"page_link"}]_vars

\* a navigation link was clicked while the menu was closed and focus was on a
\* section; focus is still there
C36_Witness ==
    /\ lastEvent = "link_click"
    /\ ~wasOpen /\ ~isOpen
    /\ activeElement \in SectionIds
    /\ bodyOverflow = ""

\* C37: one click on the trigger flips the menu once, the document's
\* outside-click handler that sees the same click leaving the flip in place;
\* one Escape keydown on a focused navigation link of the open menu, seen by
\* the link's and by the document's key handler, leaves the menu closed with
\* focus on the trigger
C37_OneStateChangePerEvent ==
    /\ lastEvent = "toggle_click" =>
          (isOpen = ~wasOpen /\ ariaExpanded = BoolToString(isOpen))
    /\ (lastEvent = "link_keydown" /\ lastArg = "Escape" /\ wasOpen) =>
          (~isOpen /\ ariaExpanded = "false" /\ activeElement = "toggle")

\* a click on the trigger opened the menu and it is open
C37_Witness ==
    /\ lastEvent = "toggle_click"
    /\ ~wasOpen /\ isOpen
    /\ bodyOverflow = "hidden"

\* the state a click on a navigation link leaves when it found the menu open
ClickedLinkOfOpenMenu == lastEvent = "link_click" /\ wasOpen

\* C38: a click on a navigation link of the open menu closes the menu, unlocks
\* body scroll, puts focus on the trigger and leaves a focus timer for the
\* link's target; when that timer fires next, with no event in between, focus
\* moves to the target and the menu is still closed and the body unlocked
C38_MenuClosesThenFocusMoves ==
    /\ [](ClickedLinkOfOpenMenu =>
             /\ ~isOpen /\ ariaExpanded = "false" /\ bodyOverflow = ""
             /\ activeElement = "toggle"
             /\ focusTimers # << >>
             /\ lastArg = "#" \o focusTimers[Len(focusTimers)].target)
    /\ [][(ClickedLinkOfOpenMenu /\ Len(focusTimers) = 1 /\ lastEvent' = "focus_timer") =>
             /\ lastArg = "#" \o activeElement'
             /\ ~isOpen' /\ ariaExpanded' = "false" /\ bodyOverflow' = ""
             /\ focusTimers' = << >>]_vars

\* the link was clicked in the open menu: the menu is closed, focus is on the
\* trigger and the only pending timer is the one for the link's target
C38_Witness ==
    /\ ClickedLinkOfOpenMenu
    /\ lastArg = "#projects"
    /\ activeElement = "toggle"
    /\ focusTimers = << [kind |-> "target", target |-> "projects"] >>

\* the message of the first rule the value of the field fails
ExpectedError(f, v) ==
    IF f = "email"
    THEN (IF Len(Trim(v)) = 0 THEN "Email is required"
          ELSE "Please enter a valid email address")
    ELSE IF Len(Trim(v)) = 0 THEN FieldLabel[f] \o " is required"
    ELSE FieldLabel[f] \o " must be at least " \o MinLengthText[f] \o " characters"

Markers(f) == fieldClassList[f] \cap {"valid", "invalid"}

\* C39: after a rejected submit every one of the four fields carries exactly
\* one marker, valid with aria-invalid 'false' and no error text if its value
\* is accepted, invalid with aria-invalid 'true' and the error of its value if
\* it is refused
C39_SubmitValidatesEveryField ==
    (lastEvent = "submit" /\ RefusedFields # << >>) =>
        \A f \in Fields :
            IF ValueAccepted(f, value[f])
            THEN Markers(f) = {"valid"} /\ ariaInvalid[f] = "false" /\ errorText[f] = ""
            ELSE /\ Markers(f) = {"invalid"} /\ ariaInvalid[f] = "true"
                 /\ errorText[f] = ExpectedError(f, value[f])

\* a submit was rejected with a one-letter name and three empty fields
C39_Witness ==
    /\ lastEvent = "submit"
    /\ value["name"] = << "A" >>
    /\ errorText["name"] = "Name must be at least 2 characters"
    /\ \A f \in Fields \ {"name"} : value[f] = << >> /\ "invalid" \in fieldClassList[f]
    /\ errorText["message"] = "Message is required"

\* C40: every field carries at most one of 'valid' and 'invalid'; aria-invalid
\* is 'true' exactly when the field is marked invalid, 'false' exactly when it
\* is marked valid, and absent on a neutral field
C40_MarkersExclusive ==
    \A f \in Fields :
        /\ Cardinality(Markers(f)) <= 1
        /\ (ariaInvalid[f] = "true") = ("invalid" \in fieldClassList[f])
        /\ (ariaInvalid[f] = "false") = ("valid" \in fieldClassList[f])
        /\ Markers(f) = {} => ariaInvalid[f] = "absent"

\* while a submission is pending a blur marked the name field invalid and the
\* other fields are still marked valid
C40_Witness ==
    /\ submissions # << >>
    /\ lastEvent = "blur"
    /\ Markers("name") = {"invalid"} /\ ariaInvalid["name"] = "true"
    /\ \A f \in Fields \ {"name"} : Markers(f) = {"valid"} /\ ariaInvalid[f] = "false"

============================================================================
